---- MODULE Spec2Model ----
(***************************************************************************)
(* Model of api/index.py: the FastAPI handlers summarize, start_chat, chat *)
(* and end_chat over a Supabase table (chat_sessions), a Supabase storage  *)
(* bucket (documents) and the OpenAI completion service.                   *)
(*                                                                         *)
(* A Python str is a sequence of one-character strings; a fixed literal    *)
(* that the code only passes along (an error detail, a prompt) is a single *)
(* element holding the whole literal.                                      *)
(***************************************************************************)
EXTENDS Integers, Sequences, FiniteSets, TLC

(***************************************************************************)
(* Bounds of the model.                                                    *)
(***************************************************************************)
\* requests accepted in one behaviour: when requests overlap (MaxRequests),
\* when they are served one after another (MaxSeqRequests), the same on every
\* kind of filename (MaxFileRequests) and on long texts (MaxLongRequests)
MaxRequests == 3
MaxSeqRequests == 4
MaxFileRequests == 2
MaxLongRequests == 2

\* the workers that serve requests concurrently (one request each at a time)
Workers == {1, 2}

(***************************************************************************)
(* Program constants.                                                      *)
(***************************************************************************)
\* index.py:53
MAX_CHARS == 12000

\* index.py:55, "... (text truncated due to length)"
TruncationMarker ==
  << ".", ".", ".", " ", "(", "t", "e", "x", "t", " ", "t", "r", "u", "n",
     "c", "a", "t", "e", "d", " ", "d", "u", "e", " ", "t", "o", " ", "l",
     "e", "n", "g", "t", "h", ")" >>

\* index.py:67, "documents/"
DocumentsPrefix == << "d", "o", "c", "u", "m", "e", "n", "t", "s", "/" >>

PdfSuffix == << ".", "p", "d", "f" >>
DocxSuffix == << ".", "d", "o", "c", "x" >>

(***************************************************************************)
(* str methods used by the code                                            *)
(***************************************************************************)
UpperCase ==
  << "A", "B", "C", "D", "E", "F", "G", "H", "I", "J", "K", "L", "M",
     "N", "O", "P", "Q", "R", "S", "T", "U", "V", "W", "X", "Y", "Z" >>
LowerCase ==
  << "a", "b", "c", "d", "e", "f", "g", "h", "i", "j", "k", "l", "m",
     "n", "o", "p", "q", "r", "s", "t", "u", "v", "w", "x", "y", "z" >>

LowerChar(c) ==
  IF \E i \in DOMAIN UpperCase : UpperCase[i] = c
  THEN LowerCase[CHOOSE i \in DOMAIN UpperCase : UpperCase[i] = c]
  ELSE c

\* str.lower()
Lower(s) == [i \in 1..Len(s) |-> LowerChar(s[i])]

\* str.endswith(suffix)
EndsWith(s, suffix) ==
  /\ Len(s) >= Len(suffix)
  /\ SubSeq(s, Len(s) - Len(suffix) + 1, Len(s)) = suffix

\* s[:n] for n >= 0
Prefix(s, n) == SubSeq(s, 1, IF n < Len(s) THEN n ELSE Len(s))

(***************************************************************************)
(* Documents.  The bytes of a file are its container format and its parts  *)
(* (pages of a PDF, paragraphs of a DOCX); a part is a run of n copies of  *)
(* one character, which the extraction library expands to text.            *)
(***************************************************************************)
Run(n, c) == [n |-> n, c |-> c]

PartText(part) == [i \in 1..part.n |-> part.c]

RECURSIVE ConcatPages(_)
ConcatPages(parts) ==
  IF parts = << >> THEN << >>
  ELSE PartText(Head(parts)) \o ConcatPages(Tail(parts))

RECURSIVE ConcatParagraphs(_)
ConcatParagraphs(parts) ==
  IF parts = << >> THEN << >>
  ELSE PartText(Head(parts)) \o << "\n" >> \o ConcatParagraphs(Tail(parts))

\* results of a call that may raise
Ok(v) == [ok |-> TRUE, val |-> v, exc |-> << >>, via |-> "none"]
Raise(e) == [ok |-> FALSE, val |-> << >>, exc |-> e, via |-> "none"]
Via(r, extractor) == [r EXCEPT !.via = extractor]

extract_text_from_pdf(contents) ==
  IF contents.format = "pdf"
  THEN Via(Ok(ConcatPages(contents.parts)), "pdf")
  ELSE Via(Raise(<< "PdfReadError" >>), "pdf")

extract_text_from_docx(contents) ==
  IF contents.format = "docx"
  THEN Via(Ok(ConcatParagraphs(contents.parts)), "docx")
  ELSE Via(Raise(<< "BadZipFile" >>), "docx")

extract_text_case_sensitive(contents, filename) ==
  IF EndsWith(filename, PdfSuffix) THEN extract_text_from_pdf(contents)
  ELSE IF EndsWith(filename, DocxSuffix) THEN extract_text_from_docx(contents)
  ELSE Raise(<< "Unsupported file type" >>)

\* index.py:143-149
extract_text(contents, filename) ==
  IF EndsWith(Lower(filename), PdfSuffix) THEN extract_text_from_pdf(contents)
  ELSE IF EndsWith(Lower(filename), DocxSuffix) THEN extract_text_from_docx(contents)
  ELSE Raise(<< "Unsupported file type" >>)

TruncateAtLimit(text) ==
  IF Len(text) >= MAX_CHARS THEN Prefix(text, MAX_CHARS) \o TruncationMarker
  ELSE text

\* index.py:52-55
Truncate(text) ==
  IF Len(text) > MAX_CHARS THEN Prefix(text, MAX_CHARS) \o TruncationMarker
  ELSE text

(***************************************************************************)
(* The files clients upload, the chat messages they send, and what the     *)
(* completion service answers.                                             *)
(***************************************************************************)
File(name, format, parts) ==
  [filename |-> name, contents |-> [format |-> format, parts |-> parts]]

SmallFiles ==
  { File(<< "a", ".", "p", "d", "f" >>, "pdf", << Run(2, "a"), Run(0, "a"), Run(1, "b") >>),
    File(<< "n", ".", "t", "x", "t" >>, "pdf", << Run(1, "a") >>) }

DocxFiles ==
  { File(<< "B", ".", "D", "o", "c", "X" >>, "docx", << Run(1, "c"), Run(0, "c"), Run(2, "d") >>) }

\* texts of MAX_CHARS - 1, MAX_CHARS and MAX_CHARS + 1 characters (PDF) and of
\* MAX_CHARS and MAX_CHARS + 1 characters (DOCX: each paragraph adds a newline)
LongFiles ==
  { File(<< "l", ".", "p", "d", "f" >>, "pdf", << Run(MAX_CHARS - 1, "a"), Run(n, "b") >>)
      : n \in 0..2 }
  \cup { File(<< "p", ".", "d", "o", "c", "x" >>, "docx", << Run(MAX_CHARS - 2, "a"), Run(n, "b") >>)
           : n \in 0..1 }

OddFiles ==
  { File(<< "p", "d", "f" >>, "pdf", << Run(1, "a") >>),
    File(<< "a", ".", "p", "d", "f", "x" >>, "pdf", << Run(1, "a") >>),
    File(<< ".", "P", "D", "F" >>, "pdf", << Run(1, "a") >>),
    File(<< "d", "o", "c", "x" >>, "docx", << Run(1, "a") >>),
    File(<< "x", ".", "p", "d", "f" >>, "docx", << Run(1, "a") >>),
    File(<< "y", ".", "d", "o", "c", "x" >>, "junk", << >>),
    File(<< >>, "pdf", << Run(1, "a") >>) }

Msgs == { << "h", "i" >>, << "?" >> }
Replies == { << "o", "k" >>, << "n", "o" >> }

HexDigits ==
  << "0", "1", "2", "3", "4", "5", "6", "7", "8", "9", "a", "b", "c", "d", "e", "f" >>

\* str(uuid.uuid4()) of the k-th uuid drawn
UuidStr(k) == << HexDigits[((k \div 16) % 16) + 1], HexDigits[(k % 16) + 1] >>

\* the session ids a client may put in a URL
SessionIds == { UuidStr(k) : k \in 1..4 }

(***************************************************************************)
(* State                                                                   *)
(***************************************************************************)
VARIABLES
  env,        \* the setting of this behaviour: the files the clients hold
              \* (uploads), the number of requests they make (limit), and
              \* whether the server serves requests concurrently (overlap)
  table,      \* rows of chat_sessions
  store,      \* objects of the storage bucket "documents"
  issued,     \* requests accepted so far
  nextUuid,   \* number of the next uuid4 drawn
  pc,         \* per worker: the statement its handler is at
  req,        \* per worker: the request it serves
  resp,       \* per worker: the response it is about to send
  file_path,  \* start_chat's local
  result,     \* chat's and end_chat's local: result.data
  text,       \* chat's local
  messages,   \* chat's local
  called,     \* per worker: the extraction function its extract_text called
  printed,    \* per worker: "Error deleting file" was printed by its end_chat
  sent,       \* per worker: the messages of its last completions.create call
  turns,      \* the (session_id, message, response) of each chat that returned
              \* 200, in the order of their returns
  ended       \* the session ids on which an end_chat has returned 200

shared == << env, issued, table, store, nextUuid, turns, ended >>
locals == << file_path, result, text, messages, called, printed, sent >>
vars == << shared, pc, req, resp, locals >>

NoFile == File(<< >>, "none", << >>)
NoReq == [op |-> "none", session_id |-> << >>, message |-> << >>, file |-> NoFile]
NoResp == [status |-> 0, kind |-> "none", text |-> << >>]

InitWith(files, limit, overlap) ==
  /\ env = [uploads |-> files, limit |-> limit, overlap |-> overlap]
  /\ issued = 0
  /\ table = {}
  /\ store = {}
  /\ nextUuid = 1
  /\ pc = [w \in Workers |-> "idle"]
  /\ req = [w \in Workers |-> NoReq]
  /\ resp = [w \in Workers |-> NoResp]
  /\ file_path = [w \in Workers |-> << >>]
  /\ result = [w \in Workers |-> {}]
  /\ text = [w \in Workers |-> << >>]
  /\ messages = [w \in Workers |-> << >>]
  /\ called = [w \in Workers |-> "none"]
  /\ printed = [w \in Workers |-> FALSE]
  /\ sent = [w \in Workers |-> << >>]
  /\ turns = << >>
  /\ ended = {}

Init == InitWith(SmallFiles, MaxRequests, TRUE)

(***************************************************************************)
(* Responses                                                               *)
(***************************************************************************)
JSONResponse(kind, v) == [status |-> 200, kind |-> kind, text |-> v]

HTTPException(status, detail) == [status |-> status, kind |-> "detail", text |-> detail]

\* index.py:92 and 123
InvalidSession == HTTPException(400, << "Invalid session ID" >>)

\* str(e) of an HTTPException e: "<status_code>: <detail>"
HTTPExceptionStr(e) ==
  << CASE e.status = 400 -> "400" [] e.status = 500 -> "500" [] OTHER -> "?", ": " >>
    \o e.text

\* "except Exception as e: raise HTTPException(status_code=500, detail=str(e))";
\* e is given by its str(e)
ExceptHandler(e) == HTTPException(500, e)

EndedMessage == << "Chat session ended and file deleted successfully" >>

(***************************************************************************)
(* The external services                                                   *)
(***************************************************************************)
\* updated_at of a row: the column's default, or the datetime.utcnow().isoformat()
\* of an update
DefaultStamp == << "default" >>
UtcNow == << "utcnow" >>

\* supabase.table("chat_sessions").select("*").eq("id", sid).execute().data
Select(sid) == { r \in table : r.id = sid }

\* .insert(row).execute(): the primary key id is unique
Insert(row) ==
  IF Select(row.id) # {} THEN Raise(<< "duplicate key" >>)
  ELSE Ok(table \cup {row})

\* an update that appends the new turn to whatever the row holds now
UpdateAppending(sid, msgs, stamp) ==
  { IF r.id = sid
    THEN [r EXCEPT !.messages = r.messages \o SubSeq(msgs, Len(msgs) - 1, Len(msgs)),
                   !.updated_at = stamp]
    ELSE r : r \in table }

\* an update that inserts the row when no row matches
UpdateUpserting(sid, msgs, stamp) ==
  IF \E r \in table : r.id = sid
  THEN { IF r.id = sid THEN [r EXCEPT !.messages = msgs, !.updated_at = stamp] ELSE r
         : r \in table }
  ELSE table \cup {[id |-> sid, file_path |-> << >>, messages |-> msgs, updated_at |-> stamp]}

\* an update without the eq("id", sid) filter
UpdateEveryRow(sid, msgs, stamp) ==
  { [r EXCEPT !.messages = msgs, !.updated_at = stamp] : r \in table }

\* .update({messages, updated_at}).eq("id", sid).execute(): rows that do not
\* match are left alone, and matching no row is no error
Update(sid, msgs, stamp) ==
  { IF r.id = sid THEN [r EXCEPT !.messages = msgs, !.updated_at = stamp] ELSE r
      : r \in table }

\* .delete().eq("id", sid).execute()
Delete(sid) == { r \in table : r.id # sid }

\* storage.from_("documents").upload(path, data): an existing path is refused
Upload(path, data) ==
  IF \E o \in store : o.path = path THEN Raise(<< "Duplicate" >>)
  ELSE Ok(store \cup {[path |-> path, data |-> data]})

ObjectNotFound == << "Object not found" >>

\* storage.from_("documents").download(path)
Download(path) ==
  IF \E o \in store : o.path = path
  THEN Ok((CHOOSE o \in store : o.path = path).data)
  ELSE Raise(ObjectNotFound)

\* storage.from_("documents").remove([path])
RemoveNothing(path) == store

Remove(path) == { o \in store : o.path # path }

\* a call to a service may also fail for the service's own reasons
StorageError == << "storage error" >>
DatabaseError == << "database error" >>
CompletionError == << "completion error" >>

SummarySystemPrompt ==
  << "You are a helpful assistant that summarizes text. Provide a concise summary of the main points." >>
SummaryUserPrefix == << "Summarize the following text:\n\n" >>
ChatSystemPrompt ==
  << "You are a helpful assistant that can answer questions about the given document." >>
ContextPrefix == << "Context:\n\n" >>

Message(role, content) == [role |-> role, content |-> content]

\* the messages generate_summary sends
SummaryMessages(t) ==
  << Message("system", SummarySystemPrompt),
     Message("user", SummaryUserPrefix \o t) >>

\* the messages generate_chat_response sends
ChatMessages(context, msgs) ==
  << Message("system", ChatSystemPrompt),
     Message("system", ContextPrefix \o context) >> \o msgs

\* what openai_client.chat.completions.create may do: answer or raise
Completions == { Ok(r) : r \in Replies } \cup { Raise(CompletionError) }

(***************************************************************************)
(* Handlers.  A handler takes one step per call to a service; the code     *)
(* between two calls belongs to the step of the call before it.  At "done" *)
(* the handler has built its response (a JSONResponse or an HTTPException) *)
(* and Respond hands it to the client and frees the worker.                *)
(***************************************************************************)
\* a request goes to the first free worker
Accept(w, r) ==
  /\ pc[w] = "idle"
  /\ \A v \in Workers : v < w => pc[v] # "idle"
  /\ env.overlap \/ \A v \in Workers : pc[v] = "idle"
  /\ issued < env.limit
  /\ issued' = issued + 1
  /\ req' = [req EXCEPT ![w] = r]

Return(w, response) ==
  /\ pc' = [pc EXCEPT ![w] = "done"]
  /\ resp' = [resp EXCEPT ![w] = response]

Goto(w, label) ==
  /\ pc' = [pc EXCEPT ![w] = label]
  /\ UNCHANGED resp

\* summarize keeping the upload in the bucket
SummarizeStoring(w, file) ==
  /\ Accept(w, [NoReq EXCEPT !.op = "summarize", !.file = file])
  /\ LET ext == extract_text(file.contents, file.filename) IN
       /\ called' = [called EXCEPT ![w] = ext.via]
       /\ \/ /\ ~ext.ok
             /\ Return(w, ExceptHandler(ext.exc))
             /\ UNCHANGED sent
          \/ /\ ext.ok
             /\ \E out \in Completions :
                  /\ sent' = [sent EXCEPT ![w] = SummaryMessages(Truncate(ext.val))]
                  /\ Return(w, IF out.ok THEN JSONResponse("summary", out.val)
                                         ELSE ExceptHandler(out.exc))
  /\ store' = store \cup {[path |-> file.filename, data |-> file.contents]}
  /\ UNCHANGED << env, table, nextUuid, turns, ended,
                  file_path, result, text, messages, printed >>

\* index.py:46-60
Summarize(w, file) ==
  /\ Accept(w, [NoReq EXCEPT !.op = "summarize", !.file = file])
  /\ LET ext == extract_text(file.contents, file.filename) IN
       /\ called' = [called EXCEPT ![w] = ext.via]
       /\ \/ /\ ~ext.ok
             /\ Return(w, ExceptHandler(ext.exc))
             /\ UNCHANGED sent
          \/ /\ ext.ok
             /\ \E out \in Completions :
                  /\ sent' = [sent EXCEPT ![w] = SummaryMessages(Truncate(ext.val))]
                  /\ Return(w, IF out.ok THEN JSONResponse("summary", out.val)
                                         ELSE ExceptHandler(out.exc))
  /\ UNCHANGED << env, table, store, nextUuid, turns, ended,
                  file_path, result, text, messages, printed >>

\* index.py:67
FilePath(uuid, filename) == DocumentsPrefix \o uuid \o << "_" >> \o filename

\* index.py:63-70
StartChatUpload(w, file) ==
  /\ Accept(w, [NoReq EXCEPT !.op = "start_chat", !.file = file])
  /\ nextUuid' = nextUuid + 1
  /\ LET path == FilePath(UuidStr(nextUuid), file.filename) IN
       /\ file_path' = [file_path EXCEPT ![w] = path]
       /\ \E up \in {Upload(path, file.contents), Raise(StorageError)} :
            IF up.ok
            THEN /\ store' = up.val
                 /\ Goto(w, "sc_insert")
            ELSE /\ Return(w, ExceptHandler(up.exc))
                 /\ UNCHANGED store
  /\ UNCHANGED << env, table, turns, ended,
                  result, text, messages, called, printed, sent >>

NewRowSeeded(session_id, path) ==
  [id |-> session_id, file_path |-> path,
   messages |-> << [role |-> "system", content |-> << "new session" >>] >>,
   updated_at |-> << "default" >>]

\* index.py:75-77, the row start_chat inserts
NewRow(session_id, path) ==
  [id |-> session_id, file_path |-> path, messages |-> << >>,
   updated_at |-> DefaultStamp]

\* index.py:72-81
StartChatInsert(w) ==
  /\ pc[w] = "sc_insert"
  /\ nextUuid' = nextUuid + 1
  /\ LET session_id == UuidStr(nextUuid) IN
       \E ins \in {Insert(NewRow(session_id, file_path[w])), Raise(DatabaseError)} :
         IF ins.ok
         THEN /\ table' = ins.val
              /\ Return(w, JSONResponse("session_id", session_id))
         ELSE /\ Return(w, ExceptHandler(ins.exc))
              /\ UNCHANGED table
  /\ UNCHANGED << env, issued, store, turns, ended, req, locals >>

\* index.py:84-94
ChatSelect(w, session_id, message) ==
  /\ Accept(w, [NoReq EXCEPT !.op = "chat", !.session_id = session_id, !.message = message])
  /\ result' = [result EXCEPT ![w] = Select(session_id)]
  /\ IF Select(session_id) = {}
     THEN Return(w, ExceptHandler(HTTPExceptionStr(InvalidSession)))
     ELSE Goto(w, "c_download")
  /\ UNCHANGED << env, table, store, nextUuid, turns, ended,
                  file_path, text, messages, called, printed, sent >>

\* result.data[0]
Session(w) == CHOOSE r \in result[w] : TRUE

AppendUserFirst(msgs, message) == << Message("user", message) >> \o msgs

\* index.py:101
AppendUser(msgs, message) == Append(msgs, Message("user", message))

AppendAssistantForgotten(msgs, response) == msgs

AppendAssistantAsUser(msgs, response) == Append(msgs, Message("user", response))

\* index.py:104
AppendAssistant(msgs, response) == Append(msgs, Message("assistant", response))

\* index.py:96-101
ChatDownload(w) ==
  /\ pc[w] = "c_download"
  /\ \E down \in {Download(Session(w).file_path), Raise(StorageError)} :
       LET ext == IF down.ok THEN extract_text(down.val, Session(w).file_path) ELSE down IN
         /\ called' = [called EXCEPT ![w] = ext.via]
         /\ IF ext.ok
            THEN /\ text' = [text EXCEPT ![w] = ext.val]
                 /\ messages' = [messages EXCEPT ![w] =
                      AppendUser(Session(w).messages, req[w].message)]
                 /\ Goto(w, "c_complete")
            ELSE /\ Return(w, ExceptHandler(ext.exc))
                 /\ UNCHANGED << text, messages >>
  /\ UNCHANGED << shared, req, file_path, result, printed, sent >>

\* index.py:103-104
ChatComplete(w) ==
  /\ pc[w] = "c_complete"
  /\ sent' = [sent EXCEPT ![w] = ChatMessages(text[w], messages[w])]
  /\ \E out \in Completions :
       IF out.ok
       THEN /\ messages' = [messages EXCEPT ![w] = AppendAssistant(messages[w], out.val)]
            /\ Goto(w, "c_update")
       ELSE /\ Return(w, ExceptHandler(out.exc))
            /\ UNCHANGED messages
  /\ UNCHANGED << shared, req, file_path, result, text, called, printed >>

\* the response local of chat, which line 104 appended last
Response(w) == messages[w][Len(messages[w])].content

\* index.py:106-113
ChatUpdate(w) ==
  /\ pc[w] = "c_update"
  /\ \/ /\ table' = Update(req[w].session_id, messages[w], UtcNow)
        /\ turns' = Append(turns, [session_id |-> req[w].session_id,
                                   message |-> req[w].message,
                                   response |-> Response(w)])
        /\ Return(w, JSONResponse("response", Response(w)))
     \/ /\ Return(w, ExceptHandler(DatabaseError))
        /\ UNCHANGED << table, turns >>
  /\ UNCHANGED << env, issued, store, nextUuid, ended, req, locals >>

\* index.py:116-125
EndChatSelect(w, session_id) ==
  /\ Accept(w, [NoReq EXCEPT !.op = "end_chat", !.session_id = session_id])
  /\ result' = [result EXCEPT ![w] = Select(session_id)]
  /\ IF Select(session_id) = {}
     THEN Return(w, ExceptHandler(HTTPExceptionStr(InvalidSession)))
     ELSE Goto(w, "e_remove")
  /\ UNCHANGED << env, table, store, nextUuid, turns, ended,
                  file_path, text, messages, called, printed, sent >>

RemoveFailedRaises(w) ==
  /\ printed' = [printed EXCEPT ![w] = TRUE]
  /\ Return(w, ExceptHandler(StorageError))

\* index.py:130-131, the except clause around the remove
RemoveFailed(w) ==
  /\ printed' = [printed EXCEPT ![w] = TRUE]
  /\ Goto(w, "e_delete")

\* index.py:127-131
EndChatRemove(w) ==
  /\ pc[w] = "e_remove"
  /\ \/ /\ store' = Remove(Session(w).file_path)
        /\ Goto(w, "e_delete")
        /\ UNCHANGED printed
     \/ /\ RemoveFailed(w)
        /\ UNCHANGED store
  /\ UNCHANGED << env, issued, table, nextUuid, turns, ended, req,
                  file_path, result, text, messages, called, sent >>

\* index.py:133-140
EndChatDelete(w) ==
  /\ pc[w] = "e_delete"
  /\ \/ /\ table' = Delete(req[w].session_id)
        /\ Return(w, JSONResponse("message", EndedMessage))
     \/ /\ Return(w, ExceptHandler(DatabaseError))
        /\ UNCHANGED table
  /\ UNCHANGED << env, issued, store, nextUuid, turns, ended, req, locals >>

\* the response leaves; the handler's frame is gone
Respond(w) ==
  /\ pc[w] = "done"
  /\ pc' = [pc EXCEPT ![w] = "idle"]
  /\ req' = [req EXCEPT ![w] = NoReq]
  /\ resp' = [resp EXCEPT ![w] = NoResp]
  /\ file_path' = [file_path EXCEPT ![w] = << >>]
  /\ result' = [result EXCEPT ![w] = {}]
  /\ text' = [text EXCEPT ![w] = << >>]
  /\ messages' = [messages EXCEPT ![w] = << >>]
  /\ called' = [called EXCEPT ![w] = "none"]
  /\ printed' = [printed EXCEPT ![w] = FALSE]
  /\ sent' = [sent EXCEPT ![w] = << >>]
  /\ ended' = IF req[w].op = "end_chat" /\ resp[w].status = 200
               THEN ended \cup {req[w].session_id} ELSE ended
  /\ UNCHANGED << env, issued, table, store, nextUuid, turns >>

Step(w) ==
  \/ \E file \in env.uploads : Summarize(w, file)
  \/ \E file \in env.uploads : StartChatUpload(w, file)
  \/ StartChatInsert(w)
  \/ \E session_id \in SessionIds, message \in Msgs : ChatSelect(w, session_id, message)
  \/ ChatDownload(w)
  \/ ChatComplete(w)
  \/ ChatUpdate(w)
  \/ \E session_id \in SessionIds : EndChatSelect(w, session_id)
  \/ EndChatRemove(w)
  \/ EndChatDelete(w)
  \/ Respond(w)

Next == \E w \in Workers : Step(w)

Spec == Init /\ [][Next]_vars

\* requests served one after another
SeqInit == InitWith(SmallFiles \cup DocxFiles, MaxSeqRequests, FALSE)

SpecSeq == SeqInit /\ [][Next]_vars

\* every kind of filename, requests served one after another
FilesInit == InitWith(SmallFiles \cup DocxFiles \cup OddFiles, MaxFileRequests, FALSE)

SpecFiles == FilesInit /\ [][Next]_vars

\* texts around MAX_CHARS characters, requests served one after another
LongInit == InitWith(LongFiles \cup DocxFiles, MaxLongRequests, FALSE)

SpecLong == LongInit /\ [][Next]_vars

(***************************************************************************)
(* Claims                                                                  *)
(***************************************************************************)

\* C1: a chat request whose session_id matches no session row is answered
\* with status 400, not 500, and never with a response text.
C1_UnknownSessionChatIs400 ==
  \A w \in Workers :
    (pc[w] = "done" /\ req[w].op = "chat" /\ result[w] = {})
      => (resp[w].status = 400 /\ resp[w].kind # "response")

\* C2: an end_chat request whose session_id matches no session row is
\* answered with status 400, not 500, and deletes no row and no stored file.
C2_UnknownSessionEndChatIs400 ==
  [][\A w \in Workers, sid \in SessionIds :
       (EndChatSelect(w, sid) /\ Select(sid) = {})
         => (resp'[w].status = 400 /\ table' = table /\ store' = store)]_vars

\* the history entries of the turns ts
RECURSIVE TurnEntries(_)
TurnEntries(ts) ==
  IF ts = << >> THEN << >>
  ELSE << Message("user", Head(ts).message), Message("assistant", Head(ts).response) >>
         \o TurnEntries(Tail(ts))

TurnsOf(session_id) == SelectSeq(turns, LAMBDA t : t.session_id = session_id)

\* C3: when requests do not overlap, the stored history of a session is, in
\* call order, the user message and the returned reply of each chat that
\* returned 200 on it: 2n entries after n such turns.
C3_SequentialHistory ==
  \A r \in table : r.messages = TurnEntries(TurnsOf(r.id))

C3_TwoTurnsStored ==
  \E r \in table :
    /\ Len(TurnsOf(r.id)) = 2
    /\ Len(r.messages) = 4
    /\ r.messages[1].content # r.messages[3].content
    /\ r.messages[2].content # r.messages[4].content

\* C4: after end_chat has succeeded on a session, every later chat and every
\* later end_chat on the same id fails with the invalid-session error (400,
\* "Invalid session ID") and changes neither the table nor the store.
C4_EndedSessionIsInvalid ==
  [][\A w \in Workers, sid \in ended :
       ((\E message \in Msgs : ChatSelect(w, sid, message)) \/ EndChatSelect(w, sid))
         => (resp'[w] = InvalidSession /\ table' = table /\ store' = store)]_vars

\* C5: when the remove of the backing file fails in end_chat, the handler goes
\* on to the row delete; unless that delete itself raises, the row is gone and
\* the response is the success confirmation.
C5_RemoveFailureSwallowed ==
  \A w \in Workers :
    printed[w] =>
      /\ pc[w] \in {"e_delete", "done"}
      /\ pc[w] = "done" =>
           \/ resp[w] = ExceptHandler(DatabaseError)
           \/ /\ resp[w] = JSONResponse("message", EndedMessage)
              /\ Select(req[w].session_id) = {}

C5_EndedWithFileLeft ==
  \E w \in Workers :
    /\ printed[w]
    /\ pc[w] = "done"
    /\ resp[w] = JSONResponse("message", EndedMessage)
    /\ Select(req[w].session_id) = {}
    /\ \E o \in store : o.path = Session(w).file_path

\* C6: a step of a chat request leaves the table alone unless it is the
\* write-back of a turn that returns 200, which changes only the row of its
\* session, to the history it read followed by the user message and the
\* returned reply; a turn whose download, extraction or completion fails
\* returns an error.
C6_ChatTurnAllOrNothing ==
  [][\A w \in Workers :
       (req'[w].op = "chat" /\ pc'[w] # pc[w]) =>
         /\ (pc[w] \in {"c_download", "c_complete"} /\ pc'[w] = "done")
              => (resp'[w].status = 500 /\ table' = table)
         /\ \/ table' = table
            \/ /\ pc[w] = "c_update"
               /\ resp'[w].status = 200
               /\ \A r \in table' :
                    IF r.id = req[w].session_id
                    THEN r.messages =
                           Session(w).messages
                             \o << Message("user", req[w].message),
                                   Message("assistant", resp'[w].text) >>
                    ELSE r \in table
               /\ Cardinality(table') = Cardinality(table)]_vars

C6_CompletionFailedNothingStored ==
  \E w \in Workers :
    /\ pc[w] = "done"
    /\ req[w].op = "chat"
    /\ resp[w] = ExceptHandler(CompletionError)
    /\ Len(messages[w]) = Len(Session(w).messages) + 1
    /\ Session(w) \in table

\* C7: a start_chat that returns 200 returns a session_id that no existing row
\* has, and inserts exactly one row: its id is that session_id, its messages
\* are empty, and its file_path names an object already in the store that
\* holds the uploaded bytes.
C7_StartChatRow ==
  [][\A w \in Workers :
       (req[w].op = "start_chat" /\ pc[w] # "done" /\ pc'[w] = "done"
          /\ resp'[w].status = 200) =>
         /\ resp'[w].kind = "session_id"
         /\ Select(resp'[w].text) = {}
         /\ \E r \in table' :
              /\ r.id = resp'[w].text
              /\ r.messages = << >>
              /\ \E o \in store : o.path = r.file_path /\ o.data = req[w].file.contents
              /\ table' = table \cup {r}]_vars

C7_SecondSessionStarted ==
  \E w \in Workers :
    /\ pc[w] = "done"
    /\ req[w].op = "start_chat"
    /\ resp[w].status = 200
    /\ Cardinality(table) = 2

\* C8: no step of a summarize request, successful or not, changes the session
\* table or the object store.
C8_SummarizeStateless ==
  [][\A w \in Workers :
       ((req[w].op = "summarize" \/ req'[w].op = "summarize") /\ pc'[w] # pc[w])
         => (table' = table /\ store' = store)]_vars

C8_SummarizedBesideSession ==
  \E w \in Workers :
    /\ pc[w] = "done"
    /\ req[w].op = "summarize"
    /\ resp[w].status = 200
    /\ table # {}
    /\ store # {}

\* the text of the user message that summarize sent, without the fixed prefix
SentText(w) ==
  SubSeq(sent[w][2].content, Len(SummaryUserPrefix) + 1, Len(sent[w][2].content))

ExtractedText(file) == extract_text(file.contents, file.filename).val

\* C9: summarize sends a text of more than MAX_CHARS characters as its first
\* MAX_CHARS characters followed by the truncation marker, and a text of at
\* most MAX_CHARS characters unchanged.
C9_SummarizeTruncates ==
  \A w \in Workers :
    (pc[w] = "done" /\ req[w].op = "summarize" /\ sent[w] # << >>) =>
      LET t == ExtractedText(req[w].file) IN
        IF Len(t) > MAX_CHARS
        THEN /\ Len(SentText(w)) = MAX_CHARS + Len(TruncationMarker)
             /\ SubSeq(SentText(w), 1, MAX_CHARS) = SubSeq(t, 1, MAX_CHARS)
             /\ SubSeq(SentText(w), MAX_CHARS + 1, Len(SentText(w))) = TruncationMarker
        ELSE SentText(w) = t

C9_LongTextSent ==
  \E w \in Workers :
    /\ pc[w] = "done"
    /\ req[w].op = "summarize"
    /\ sent[w] # << >>
    /\ Len(ExtractedText(req[w].file)) > MAX_CHARS
    /\ ExtractedText(req[w].file)[MAX_CHARS + 1] = "b"

\* name ends in suffix when letter case is ignored
HasSuffixIgnoringCase(name, suffix) ==
  /\ Len(name) >= Len(suffix)
  /\ \A i \in 1..Len(suffix) :
       LowerChar(name[Len(name) - Len(suffix) + i]) = suffix[i]

ExtractorFor(name) ==
  IF HasSuffixIgnoringCase(name, PdfSuffix) THEN "pdf"
  ELSE IF HasSuffixIgnoringCase(name, DocxSuffix) THEN "docx"
  ELSE "none"

\* the filename of the upload that a stored path was made from
UploadedName(path) ==
  SubSeq(path, Len(DocumentsPrefix) + Len(UuidStr(1)) + 2, Len(path))

Unsupported == ExceptHandler(<< "Unsupported file type" >>)

\* the chat request of worker w ended at its download
DownloadFailed(w) ==
  resp[w] \in {ExceptHandler(StorageError), ExceptHandler(ObjectNotFound)}

\* C10: summarize, on the uploaded filename, and chat, on the filename its
\* stored file_path was made from, call the PDF extractor for a name ending
\* in .pdf, the DOCX extractor for a name ending in .docx (letter case
\* ignored), and for any other name call neither and fail as unsupported.
C10_DispatchOnSuffix ==
  \A w \in Workers :
    /\ (pc[w] = "done" /\ req[w].op = "summarize") =>
         /\ called[w] = ExtractorFor(req[w].file.filename)
         /\ called[w] = "none" => resp[w] = Unsupported
    /\ (req[w].op = "chat" /\ pc[w] \in {"c_complete", "c_update", "done"}
          /\ result[w] # {} /\ ~DownloadFailed(w)) =>
         /\ called[w] = ExtractorFor(UploadedName(Session(w).file_path))
         /\ called[w] = "none" => (pc[w] = "done" /\ resp[w] = Unsupported)

C10_ChatOnUpperCaseName ==
  \E w \in Workers :
    /\ req[w].op = "chat"
    /\ pc[w] = "c_complete"
    /\ called[w] = "docx"
    /\ Session(w).file_path[Len(Session(w).file_path)] = "X"

\* the two history entries of the turn that worker w is writing back
OwnEntries(w) ==
  << Message("user", req[w].message), Message("assistant", Response(w)) >>

\* C11: two overlapping chat turns on one session can both return 200 while
\* the stored history keeps the entries of only one: a write-back that
\* returns 200 replaces the whole history of its row by the history it read
\* followed by its own two entries, whatever was written since it read.
C11_WriteBackOverwrites ==
  [][\A w \in Workers :
       (pc[w] = "c_update" /\ resp'[w].status = 200) =>
         \A r \in Select(req[w].session_id) :
           \E r2 \in table' :
             /\ r2.id = r.id
             /\ r2.messages = Session(w).messages \o OwnEntries(w)]_vars

C11_BothReturnedOneStored ==
  \E w \in Workers, r \in table :
    /\ pc[w] = "done"
    /\ req[w].op = "chat"
    /\ resp[w].status = 200
    /\ r.id = req[w].session_id
    /\ Len(TurnsOf(r.id)) = 2
    /\ Session(w).messages = << >>
    /\ r.messages = << Message("user", req[w].message), Message("assistant", resp[w].text) >>

\* C12: in every reachable state the object named by the file_path of every
\* session row is in the store.
C12_FileOfRowStored ==
  \A r \in table : \E o \in store : o.path = r.file_path

\* C13 as stated: after end_chat on an existing session has returned its
\* success confirmation, neither the row nor the backing file exists.
C13_EndedLeavesNothing ==
  \A w \in Workers :
    (pc[w] = "done" /\ req[w].op = "end_chat" /\ resp[w].status = 200) =>
      /\ Select(req[w].session_id) = {}
      /\ ~ \E o \in store : o.path = Session(w).file_path

\* C13, amended: after end_chat on an existing session has returned its
\* success confirmation the row does not exist, and the backing file does not
\* exist unless its remove failed, which the handler only prints.
C13_EndedLeavesNoRow ==
  \A w \in Workers :
    (pc[w] = "done" /\ req[w].op = "end_chat" /\ resp[w].status = 200) =>
      /\ resp[w] = JSONResponse("message", EndedMessage)
      /\ Select(req[w].session_id) = {}
      /\ printed[w] \/ ~ \E o \in store : o.path = Session(w).file_path

C13_EndedBesideSession ==
  \E w \in Workers :
    /\ pc[w] = "done"
    /\ req[w].op = "end_chat"
    /\ resp[w].status = 200
    /\ ~printed[w]
    /\ Session(w) \notin table
    /\ table # {}
    /\ Cardinality(store) = 1

\* the session ids drawn so far
Drawn == { UuidStr(k) : k \in 1..(nextUuid - 1) }

\* C14: a session id that was drawn and has no row never has a row again:
\* once end_chat has deleted the row of a session no step brings it back, not
\* even the write-back of a chat that read the row before the deletion.
C14_EndedIsTerminal ==
  [][\A sid \in Drawn : Select(sid) = {} => { r \in table' : r.id = sid } = {}]_vars

C14_WriteBackAfterDelete ==
  \E w \in Workers :
    /\ pc[w] = "done"
    /\ req[w].op = "chat"
    /\ resp[w].status = 200
    /\ result[w] # {}
    /\ Select(req[w].session_id) = {}

\* C15: a row keeps its id and its file_path from its insert to its delete,
\* no two rows share an id, and the write-back of a chat changes nothing but
\* messages and updated_at of the row whose id is its session_id.
C15_RowFrame ==
  [][/\ \A r \in table, r2 \in table' : r2.id = r.id => r2.file_path = r.file_path
     /\ \A r2 \in table', r3 \in table' : r2.id = r3.id => r2 = r3
     /\ \A w \in Workers :
          (pc[w] = "c_update" /\ pc'[w] = "done") =>
            /\ { r \in table' : r.id # req[w].session_id }
                 = { r \in table : r.id # req[w].session_id }
            /\ { r.id : r \in table' } = { r.id : r \in table }]_vars

C15_TurnStoredBesideOtherRow ==
  \E w \in Workers :
    /\ pc[w] = "done"
    /\ req[w].op = "chat"
    /\ resp[w].status = 200
    /\ \E r \in table : r.id = req[w].session_id /\ r.updated_at = UtcNow
    /\ \E r \in table : r.id # req[w].session_id /\ r.updated_at = DefaultStamp

\* the document context that chat sent, without the fixed prefix
SentContext(w) ==
  SubSeq(sent[w][2].content, Len(ContextPrefix) + 1, Len(sent[w][2].content))

\* C16: chat sends the text of a document of more than MAX_CHARS characters
\* as a context cut by the rule of summarize: its first MAX_CHARS characters
\* followed by the truncation marker.
C16_ChatContextTruncated ==
  \A w \in Workers :
    (req[w].op = "chat" /\ sent[w] # << >>) =>
      IF Len(text[w]) > MAX_CHARS
      THEN /\ Len(SentContext(w)) = MAX_CHARS + Len(TruncationMarker)
           /\ SubSeq(SentContext(w), 1, MAX_CHARS) = SubSeq(text[w], 1, MAX_CHARS)
      ELSE SentContext(w) = text[w]

\* C17: the stored messages of every row have even length and alternate
\* user, assistant, user, assistant, ...: no entry has role system and no
\* history ends with a user message.
C17_HistoryAlternates ==
  \A r \in table :
    /\ Len(r.messages) % 2 = 0
    /\ \A i \in 1..Len(r.messages) :
         r.messages[i].role = IF i % 2 = 1 THEN "user" ELSE "assistant"

C17_OverlappingTurns ==
  \E w \in Workers, r \in table :
    /\ pc[w] = "c_update"
    /\ req[w].session_id = r.id
    /\ Len(messages[w]) = 2
    /\ Len(r.messages) = 2
    /\ r.messages # messages[w]

\* C18: when a chat returns 200, at that step the row of its session exists
\* and its stored history ends with the user message of the request followed
\* by the returned reply.
C18_ReturnedTurnIsStored ==
  [][\A w \in Workers :
       (pc[w] = "c_update" /\ resp'[w].status = 200) =>
         \E r \in table' :
           /\ r.id = req[w].session_id
           /\ Len(r.messages) >= 2
           /\ SubSeq(r.messages, Len(r.messages) - 1, Len(r.messages))
                = << Message("user", req[w].message),
                     Message("assistant", resp'[w].text) >>]_vars

\* C19: when a start_chat finishes, with 200 or with an error, the object it
\* uploaded, if any, is the file_path of exactly one row.
C19_NoOrphanAfterStartChat ==
  [][\A w \in Workers :
       (pc[w] = "sc_insert" /\ pc'[w] = "done") =>
         \A o \in store' :
           o.path = file_path[w]
             => Cardinality({ r \in table' : r.file_path = o.path }) = 1]_vars

====
